---- MODULE Spec2Model ----
(***************************************************************************)
(* Model of api.py: the background AI-analysis task                        *)
(* (fetch_and_analyze_data), the module-global ai_analysis_cache it        *)
(* publishes into, the two triggers that start it (a one-shot              *)
(* threading.Timer and an APScheduler interval job) and the                *)
(* GET /api/ai-analysis handler that reads the cache.                      *)
(*                                                                         *)
(* Threads interleave at the two blocking network calls (es.search,        *)
(* model.generate_content), at reads of the wall clock and at the store    *)
(* of the module global; purely local computation between those points     *)
(* is folded into the step that precedes it.                               *)
(***************************************************************************)
EXTENDS Integers, Sequences, FiniteSets, TLC

\* ------------------------------------------------------------------ bounds
MaxTicks == 2      \* interval ticks of the scheduler that are explored
MaxTime == 6       \* wall-clock readings that are explored
MaxEvents == 1     \* largest hits.total.value a query response reports

\* ------------------------------------------------------------- JSON values
\* A JSON field value: a tagged integer (the integer names which string,
\* list or instant it is).  None is Python's None / JSON null.
Str(n) == [tag |-> "str", v |-> n]
List(n) == [tag |-> "list", v |-> n]
Stamp(n) == [tag |-> "ts", v |-> n]
\* The string Str(n) with three backquotes somewhere inside it.
FStr(n) == [tag |-> "fstr", v |-> n]
None == [tag |-> "none", v |-> 0]

NoFields == [k \in {} |-> None]

\* What json.loads can return: a dict (kind "object", with its items) or a
\* value of another kind (array, string, number, true/false, null).
JObject(f) == [kind |-> "object", fields |-> f]
JOther(k) == [kind |-> k, fields |-> NoFields]
JNull == JOther("null")

RequiredKeys == {"summary", "threat_type", "recommendations"}
BriefingKeys == RequiredKeys \cup {"last_updated"}

\* The placeholder the module installs at import time.
InitialCache ==
    JObject([k \in BriefingKeys |->
               CASE k = "summary" -> Str(0)
                 [] k = "threat_type" -> Str(0)
                 [] k = "recommendations" -> List(0)
                 [] OTHER -> None])

\* d[key] = val on a Python value: only a dict supports it.
SupportsItemAssignment(j) == j.kind = "object"
\* Faulty variant: d.setdefault(key, val), which keeps an item the dict has.
SetItemIfAbsent(j, key, val) ==
    JObject([k \in (DOMAIN j.fields) \cup {key} |->
               IF k \in DOMAIN j.fields THEN j.fields[k] ELSE val])
SetItem(j, key, val) ==
    JObject([k \in (DOMAIN j.fields) \cup {key} |->
               IF k = key THEN val ELSE j.fields[k]])

\* datetime.now().isoformat(): the reading of the clock as a string whose
\* order is the order of the instants.
IsoFormat(t) == Stamp(t)

\* ---------------------------------------------------------- reply texts
\* The text of a reply is a sequence of tokens: whitespace, a code fence
\* (three backquotes), the bare word json, other prose, or the text of one
\* JSON value.
Tok(t) == [t |-> t, val |-> JNull]
ValTok(j) == [t |-> "value", val |-> j]
WS == Tok("ws")
FENCE == Tok("fence")
JSONWORD == Tok("json")
PROSE == Tok("prose")

RECURSIVE LStrip(_)
LStrip(s) == IF s # <<>> /\ Head(s) = WS THEN LStrip(Tail(s)) ELSE s

RECURSIVE RStrip(_)
RStrip(s) ==
    IF s # <<>> /\ s[Len(s)] = WS THEN RStrip(SubSeq(s, 1, Len(s) - 1)) ELSE s

\* str.strip()
Strip(s) == RStrip(LStrip(s))

\* str.replace("```json", ""): one pass, left to right, non-overlapping.
RECURSIVE RemoveFenceJson(_)
RemoveFenceJson(s) ==
    IF Len(s) < 2 THEN s
    ELSE IF s[1] = FENCE /\ s[2] = JSONWORD
         THEN RemoveFenceJson(SubSeq(s, 3, Len(s)))
         ELSE <<s[1]>> \o RemoveFenceJson(Tail(s))

\* str.replace("```", "") removes every run of three backquotes of the text,
\* those inside the strings of a JSON value as well as the fences around it.
Unfenced(tok) ==
    [tok EXCEPT
       !.val.fields = [k \in DOMAIN tok.val.fields |->
                         IF tok.val.fields[k].tag = "fstr"
                         THEN Str(tok.val.fields[k].v)
                         ELSE tok.val.fields[k]]]
RECURSIVE RemoveFence(_)
RemoveFence(s) ==
    IF s = <<>> THEN s
    ELSE IF Head(s) = FENCE THEN RemoveFence(Tail(s))
         ELSE <<Unfenced(Head(s))>> \o RemoveFence(Tail(s))

\* cleaned_response = response.text.strip().replace(..).replace(..)
CleanResponse(text) == RemoveFence(RemoveFenceJson(Strip(text)))

\* json.loads accepts exactly one JSON value with optional whitespace around
\* it and raises JSONDecodeError on anything else.
JsonLoadsOk(s) == Len(Strip(s)) = 1 /\ Strip(s)[1].t = "value"
JsonLoads(s) == Strip(s)[1].val

\* ------------------------------------------------- what the services send
FullBriefing(n) ==
    JObject([k \in RequiredKeys |->
               IF k = "recommendations" THEN List(n) ELSE Str(n)])
PartialBriefing(n) ==
    JObject([k \in {"summary", "threat_type"} |-> Str(n)])
DatedBriefing(n) == SetItem(FullBriefing(n), "last_updated", Str(n))
QuotingBriefing(n) == SetItem(FullBriefing(n), "summary", FStr(n))

\* Texts model.generate_content may return (response.text raises on a reply
\* without text, so a returned text has at least one token).
Replies ==
    { <<ValTok(FullBriefing(1))>>,
      <<FENCE, JSONWORD, WS, ValTok(FullBriefing(1)), WS, FENCE, WS>>,
      <<ValTok(PartialBriefing(1))>>,
      <<ValTok(DatedBriefing(1))>>,
      <<FENCE, WS, ValTok(QuotingBriefing(1)), WS, FENCE>>,
      <<ValTok(JOther("array"))>>,
      <<ValTok(JOther("string"))>>,
      <<ValTok(JNull)>>,
      <<PROSE, ValTok(FullBriefing(1))>>,
      <<WS>> }

\* Bodies es.search may return: whether hits.total.value is present, its
\* value, and whether every aggregation bucket has the shape lines 81-85
\* index into.
SearchBodies ==
    [hasTotal : BOOLEAN, total_events : 0..MaxEvents, bucketsOk : BOOLEAN]
NoBody == [hasTotal |-> FALSE, total_events |-> 0, bucketsOk |-> FALSE]
\* How the es.search call of a run stands: not yet returned, raised, or
\* returned with a body.
Pending == [status |-> "pending", body |-> NoBody]
Raised == [status |-> "raised", body |-> NoBody]
Returned(b) == [status |-> "returned", body |-> b]

\* The classes of the errors the task can raise, and the ones the handler
\* of line 114 (except Exception) catches: all of them.
ErrorClasses ==
    {"TransportError", "KeyError", "ServiceError", "JSONDecodeError",
     "TypeError"}
\* Faulty variant: a handler as narrow as the one of line 44.
CatchesOnlyConnectionError(err) == err = "ConnectionError"
Catches(err) == err \in ErrorClasses

\* Lines 107-109: clean the text and parse it.
\* Faulty variant: a text that does not parse counts as an empty dict.
ParseReplyLenient(text) ==
    LET s == CleanResponse(text)
    IN  IF JsonLoadsOk(s) THEN [ok |-> TRUE, value |-> JsonLoads(s)]
        ELSE [ok |-> TRUE, value |-> JObject(NoFields)]
ParseReply(text) ==
    LET s == CleanResponse(text)
    IN  IF JsonLoadsOk(s) THEN [ok |-> TRUE, value |-> JsonLoads(s)]
        ELSE [ok |-> FALSE, value |-> JNull]

\* ------------------------------------------------------------ the dashboard
\* Line 133: the histogram runs over the last 24 hours in buckets of 1h.
WindowHours == 24
\* Clock units in an hour, so that a request can fall on the hour or inside it.
PerHour == 2
\* Times at which a request reaches /api/dashboard: every instant of one hour.
RequestTimes == {(WindowHours + 1) * PerHour + o : o \in 0..(PerHour - 1)}
\* Elasticsearch date math: t/h rounds t down to the hour (here: its number).
FloorHour(t) == t \div PerHour
\* The date_histogram of line 133 asked at time t over events at times docs:
\* extended_bounds and min_doc_count 0 make Elasticsearch return one bucket
\* for every hour from the hour of now-24h to the hour of now, both included.
DateHistogram(t, docs) ==
    LET min == FloorHour(t - WindowHours * PerHour)
        max == FloorHour(t)
    IN  [i \in 1..(max - min + 1) |->
           [key |-> min + i - 1,
            doc_count |-> Cardinality({d \in docs : FloorHour(d) = min + i - 1})]]
\* Lines 146-148.
format_buckets(agg_data) ==
    [i \in 1..Len(agg_data) |->
       [name |-> agg_data[i].key, value |-> agg_data[i].doc_count]]
\* The events in the index when a request arrives at time t: none, or one in
\* the hour of the request.
EventLogs(t) == {{}, {t}}

\* A response of GET / or GET /api/dashboard: flask's jsonify(body), status.
Response(route, status, body) ==
    [route |-> route, status |-> status, body |-> body]
NoResponse == Response("none", 0, [none |-> "none"])

\* ------------------------------------------------------------------ state
Cycles == {"timer", "job"}

VARIABLES
    es,                 \* TRUE iff the module global es is a client (not None)
    model,              \* TRUE iff the module global model is not None
    ai_analysis_cache,  \* the module global served by /api/ai-analysis
    now,                \* the wall clock
    ticks,              \* interval ticks the scheduler has fired
    pc,                 \* where each thread running the task is
    started,            \* the clock reading of line 55 in each thread's run
    search,             \* the es.search call of line 69 in each thread's run
    reply,              \* response.text of line 103 in each thread's run
    ai_result,          \* the local ai_result of each thread's run
    calls,              \* generate_content calls made in each thread's run
    result,             \* how each thread's latest run ended
    cacheStart,         \* `started` of the run whose commit the cache holds
    served,             \* the body of the latest /api/ai-analysis response
    response,           \* the latest response of GET / or GET /api/dashboard
    dashboard_search    \* how es.search ended in the request `response`
                        \* answers

vars == <<es, model, ai_analysis_cache, now, ticks, pc, started, search, reply,
          ai_result, calls, result, cacheStart, served, response,
          dashboard_search>>

NoReply == <<>>
Running == [outcome |-> "running", at |-> "none"]
Ended(o, a) == [outcome |-> o, at |-> a]

\* Where a thread rests when its run is over: the Timer thread ends, the
\* scheduler's job waits for the next tick.
Rest(c) == IF c = "timer" THEN "dead" ELSE "waiting"

Active(c) == pc[c] \in {"querying", "summarizing", "stamping", "publishing"}

Init ==
    /\ es \in BOOLEAN
    /\ model \in BOOLEAN
    /\ ai_analysis_cache = InitialCache
    /\ now = 1
    /\ ticks = 0
    /\ pc = [c \in Cycles |-> IF c = "timer" THEN "armed" ELSE "waiting"]
    /\ started = [c \in Cycles |-> 0]
    /\ search = [c \in Cycles |-> Pending]
    /\ reply = [c \in Cycles |-> NoReply]
    /\ ai_result = [c \in Cycles |-> JNull]
    /\ calls = [c \in Cycles |-> 0]
    /\ result = [c \in Cycles |-> Ended("none", "none")]
    /\ cacheStart = 0
    /\ served = JNull
    /\ response = NoResponse
    /\ dashboard_search = "none"

\* ----------------------------------------------- fetch_and_analyze_data
\* An error raised inside the try block of lines 56-112 reaches the handler
\* of line 114, which prints it and lets the function return; an error the
\* handler does not catch leaves the function.
Raise(c, err, at) ==
    /\ pc' = [pc EXCEPT ![c] = Rest(c)]
    /\ result' = [result EXCEPT
                    ![c] = IF Catches(err) THEN Ended("skipped", at)
                           ELSE Ended("escaped", at)]

\* Faulty variant: line 51 written with `and`, so that the task goes on when
\* only one of the two clients is missing.
BeginUnlessBothMissing(c) ==
    /\ search' = [search EXCEPT ![c] = Pending]
    /\ reply' = [reply EXCEPT ![c] = NoReply]
    /\ ai_result' = [ai_result EXCEPT ![c] = JNull]
    /\ calls' = [calls EXCEPT ![c] = 0]
    /\ IF ~es /\ ~model
       THEN /\ pc' = [pc EXCEPT ![c] = Rest(c)]
            /\ result' = [result EXCEPT ![c] = Ended("skipped", "unavailable")]
            /\ UNCHANGED <<now, started>>
       ELSE /\ now < MaxTime
            /\ started' = [started EXCEPT ![c] = now]
            /\ now' = now + 1
            /\ pc' = [pc EXCEPT ![c] = "querying"]
            /\ result' = [result EXCEPT ![c] = Running]
    /\ UNCHANGED <<response, dashboard_search, es, model, ai_analysis_cache,
                   cacheStart, served>>
\* Lines 49-69: the availability test, the clock reading of line 55 and the
\* search request being sent.
Begin(c) ==
    /\ search' = [search EXCEPT ![c] = Pending]
    /\ reply' = [reply EXCEPT ![c] = NoReply]
    /\ ai_result' = [ai_result EXCEPT ![c] = JNull]
    /\ calls' = [calls EXCEPT ![c] = 0]
    /\ IF ~es \/ ~model
       THEN /\ pc' = [pc EXCEPT ![c] = Rest(c)]
            /\ result' = [result EXCEPT ![c] = Ended("skipped", "unavailable")]
            /\ UNCHANGED <<now, started>>
       ELSE /\ now < MaxTime
            /\ started' = [started EXCEPT ![c] = now]
            /\ now' = now + 1
            /\ pc' = [pc EXCEPT ![c] = "querying"]
            /\ result' = [result EXCEPT ![c] = Running]
    /\ UNCHANGED <<response, dashboard_search, es, model, ai_analysis_cache,
                   cacheStart, served>>

\* Faulty variant: the failure also resets the cache to the placeholder.
SearchRaisesAndClears(c) ==
    /\ pc[c] = "querying"
    /\ search' = [search EXCEPT ![c] = Raised]
    /\ Raise(c, "TransportError", "query")
    /\ ai_analysis_cache' = InitialCache
    /\ UNCHANGED <<response, dashboard_search, es, model, now, ticks, started,
                   reply, ai_result, calls, cacheStart, served>>
\* Line 69 raises.
SearchRaises(c) ==
    /\ pc[c] = "querying"
    /\ search' = [search EXCEPT ![c] = Raised]
    /\ Raise(c, "TransportError", "query")
    /\ UNCHANGED <<response, dashboard_search, es, model, ai_analysis_cache,
                   now, ticks, started, reply, ai_result, calls, cacheStart,
                   served>>

\* Line 69 returns a body without hits.total.value (line 71 raises), or with
\* events but a bucket lines 81-85 cannot index.
SearchMalformed(c) ==
    /\ pc[c] = "querying"
    /\ \E b \in SearchBodies :
         /\ ~b.hasTotal \/ (b.total_events # 0 /\ ~b.bucketsOk)
         /\ search' = [search EXCEPT ![c] = Returned(b)]
    /\ Raise(c, "KeyError", "compose")
    /\ UNCHANGED <<response, dashboard_search, es, model, ai_analysis_cache,
                   now, ticks, started, reply, ai_result, calls, cacheStart,
                   served>>

\* Faulty variant: the early return of line 76 is missing.
SearchEmptyGoesOn(c) ==
    /\ pc[c] = "querying"
    /\ \E b \in SearchBodies :
         /\ b.hasTotal /\ b.total_events = 0
         /\ search' = [search EXCEPT ![c] = Returned(b)]
    /\ pc' = [pc EXCEPT ![c] = "summarizing"]
    /\ calls' = [calls EXCEPT ![c] = @ + 1]
    /\ UNCHANGED <<response, dashboard_search, es, model, ai_analysis_cache,
                   now, ticks, started, reply, ai_result, result, cacheStart,
                   served>>
\* Lines 73-76: no events, the function returns.
SearchEmpty(c) ==
    /\ pc[c] = "querying"
    /\ \E b \in SearchBodies :
         /\ b.hasTotal /\ b.total_events = 0
         /\ search' = [search EXCEPT ![c] = Returned(b)]
    /\ pc' = [pc EXCEPT ![c] = Rest(c)]
    /\ result' = [result EXCEPT ![c] = Ended("skipped", "empty")]
    /\ UNCHANGED <<response, dashboard_search, es, model, ai_analysis_cache,
                   now, ticks, started, reply, ai_result, calls, cacheStart,
                   served>>

\* Lines 70-103: events were found, the prompt is built and sent.
SearchOk(c) ==
    /\ pc[c] = "querying"
    /\ \E b \in SearchBodies :
         /\ b.hasTotal /\ b.total_events # 0 /\ b.bucketsOk
         /\ search' = [search EXCEPT ![c] = Returned(b)]
    /\ pc' = [pc EXCEPT ![c] = "summarizing"]
    /\ calls' = [calls EXCEPT ![c] = @ + 1]
    /\ UNCHANGED <<response, dashboard_search, es, model, ai_analysis_cache,
                   now, ticks, started, reply, ai_result, result, cacheStart,
                   served>>

\* Faulty variant: a failed call is tried once more before giving up.
GenerateRaisesAndRetries(c) ==
    /\ pc[c] = "summarizing"
    /\ IF calls[c] < 2
       THEN /\ calls' = [calls EXCEPT ![c] = @ + 1]
            /\ UNCHANGED <<pc, result>>
       ELSE /\ Raise(c, "ServiceError", "summarize")
            /\ UNCHANGED calls
    /\ UNCHANGED <<response, dashboard_search, es, model, ai_analysis_cache,
                   now, ticks, started, search, reply, ai_result, cacheStart,
                   served>>
\* Line 103 raises.
GenerateRaises(c) ==
    /\ pc[c] = "summarizing"
    /\ Raise(c, "ServiceError", "summarize")
    /\ UNCHANGED <<response, dashboard_search, es, model, ai_analysis_cache,
                   now, ticks, started, search, reply, ai_result, calls,
                   cacheStart, served>>

\* Lines 103-109: the reply arrives, is cleaned and parsed.
GenerateReturns(c) ==
    /\ pc[c] = "summarizing"
    /\ \E text \in Replies :
         /\ reply' = [reply EXCEPT ![c] = text]
         /\ IF ParseReply(text).ok
            THEN /\ ai_result' = [ai_result EXCEPT ![c] = ParseReply(text).value]
                 /\ pc' = [pc EXCEPT ![c] = "stamping"]
                 /\ UNCHANGED result
            ELSE /\ Raise(c, "JSONDecodeError", "parse")
                 /\ UNCHANGED ai_result
    /\ UNCHANGED <<response, dashboard_search, es, model, ai_analysis_cache,
                   now, ticks, started, search, calls, cacheStart, served>>

\* Faulty variant: lines 110 and 111 swapped, the dict is published before
\* its timestamp is attached.
PublishThenStamp(c) ==
    /\ pc[c] = "stamping"
    /\ now < MaxTime
    /\ now' = now + 1
    /\ IF SupportsItemAssignment(ai_result[c])
       THEN /\ ai_analysis_cache' = ai_result[c]
            /\ ai_result' = [ai_result EXCEPT
                               ![c] = SetItem(@, "last_updated", IsoFormat(now))]
            /\ pc' = [pc EXCEPT ![c] = "publishing"]
            /\ UNCHANGED result
       ELSE /\ Raise(c, "TypeError", "stamp")
            /\ UNCHANGED <<ai_result, ai_analysis_cache>>
    /\ UNCHANGED <<response, dashboard_search, es, model, ticks, started,
                   search, reply, calls, cacheStart, served>>
\* Line 110: the clock is read, then the item is assigned; the assignment
\* raises TypeError on anything but a dict.
AttachTimestamp(c) ==
    /\ pc[c] = "stamping"
    /\ now < MaxTime
    /\ now' = now + 1
    /\ IF SupportsItemAssignment(ai_result[c])
       THEN /\ ai_result' = [ai_result EXCEPT
                               ![c] = SetItem(@, "last_updated", IsoFormat(now))]
            /\ pc' = [pc EXCEPT ![c] = "publishing"]
            /\ UNCHANGED result
       ELSE /\ Raise(c, "TypeError", "stamp")
            /\ UNCHANGED ai_result
    /\ UNCHANGED <<response, dashboard_search, es, model, ai_analysis_cache,
                   ticks, started, search, reply, calls, cacheStart, served>>

\* Faulty variant: ai_analysis_cache.update(ai_result), which reads the
\* cached dict and merges the new items into it.
PublishByUpdate(c) ==
    /\ pc[c] = "publishing"
    /\ ai_analysis_cache' =
          JObject([k \in (DOMAIN ai_analysis_cache.fields)
                            \cup (DOMAIN ai_result[c].fields) |->
                     IF k \in DOMAIN ai_result[c].fields
                     THEN ai_result[c].fields[k]
                     ELSE ai_analysis_cache.fields[k]])
    /\ cacheStart' = started[c]
    /\ pc' = [pc EXCEPT ![c] = Rest(c)]
    /\ result' = [result EXCEPT ![c] = Ended("committed", "none")]
    /\ UNCHANGED <<response, dashboard_search, es, model, now, ticks, started,
                   search, reply, ai_result, calls, served>>
\* Faulty variant: the task loops (while True) and queries again after the
\* commit instead of returning.
PublishAndQueryAgain(c) ==
    /\ pc[c] = "publishing"
    /\ ai_analysis_cache' = ai_result[c]
    /\ cacheStart' = started[c]
    /\ pc' = [pc EXCEPT ![c] = "querying"]
    /\ search' = [search EXCEPT ![c] = Pending]
    /\ reply' = [reply EXCEPT ![c] = NoReply]
    /\ calls' = [calls EXCEPT ![c] = 0]
    /\ UNCHANGED <<response, dashboard_search, es, model, now, ticks, started,
                   ai_result, result, served>>
\* Line 111: the module global is rebound to the finished dict.
Publish(c) ==
    /\ pc[c] = "publishing"
    /\ ai_analysis_cache' = ai_result[c]
    /\ cacheStart' = started[c]
    /\ pc' = [pc EXCEPT ![c] = Rest(c)]
    /\ result' = [result EXCEPT ![c] = Ended("committed", "none")]
    /\ UNCHANGED <<response, dashboard_search, es, model, now, ticks, started,
                   search, reply, ai_result, calls, served>>

\* ------------------------------------------------------------- triggers
\* Line 182: threading.Timer(10, fetch_and_analyze_data) fires once, in a
\* thread of its own.
TimerFires ==
    /\ pc["timer"] = "armed"
    /\ Begin("timer")
    /\ UNCHANGED ticks

\* Lines 185-187: the interval job, first due ten minutes after start (so
\* after the Timer's ten seconds).  The scheduler runs at most one instance
\* of a job: a tick that finds the job running is dropped.
JobTick ==
    /\ pc["timer"] # "armed"
    /\ ticks < MaxTicks
    /\ ticks' = ticks + 1
    /\ IF pc["job"] = "waiting"
       THEN Begin("job")
       ELSE UNCHANGED <<response, dashboard_search, es, model,
                        ai_analysis_cache, now, pc, started, search, reply,
                        ai_result, calls, result, cacheStart, served>>

\* ------------------------------------------------------- request handlers
\* Lines 118-120: GET /, which calls nothing.
health_check ==
    /\ dashboard_search' = "not_called"
    /\ response' = Response("/", 200,
                            [status |-> "ok",
                             message |-> "T-Pot Dashboard API is running."])
    /\ UNCHANGED <<served, es, model, ai_analysis_cache, now,
                   ticks, pc, started, search, reply, ai_result, calls, result,
                   cacheStart>>

\* Faulty variant: the error bodies are returned without the 500 of lines
\* 126 and 171, so with flask's default status.
get_dashboard_data_always_200 ==
    /\ IF ~es
       THEN /\ dashboard_search' = "not_called"
            /\ response' = Response("/api/dashboard", 200,
                   [error |-> "Elasticsearch connection not available"])
       ELSE \/ /\ dashboard_search' = "raised"
               /\ response' = Response("/api/dashboard", 200,
                                       [error |-> "TransportError"])
            \/ /\ dashboard_search' = "malformed"
               /\ response' = Response("/api/dashboard", 200,
                                       [error |-> "KeyError"])
            \/ \E t \in RequestTimes : \E docs \in EventLogs(t) :
                  /\ dashboard_search' = "returned"
                  /\ response' = Response("/api/dashboard", 200,
                        [chart_attacks_over_time |->
                           format_buckets(DateHistogram(t, docs))])
    /\ UNCHANGED <<served, es, model, ai_analysis_cache, now, ticks, pc,
                   started, search, reply, ai_result, calls, result, cacheStart>>
\* Lines 122-171: GET /api/dashboard.  Without a client the handler answers
\* at once (125-126); es.search raising, or a body without hits.total.value
\* (KeyError at line 152), ends in the handler of lines 169-171; otherwise
\* the aggregations are reshaped and returned.
get_dashboard_data ==
    /\ IF ~es
       THEN /\ dashboard_search' = "not_called"
            /\ response' = Response("/api/dashboard", 500,
                   [error |-> "Elasticsearch connection not available"])
       ELSE \/ /\ dashboard_search' = "raised"
               /\ response' = Response("/api/dashboard", 500,
                                       [error |-> "TransportError"])
            \/ /\ dashboard_search' = "malformed"
               /\ response' = Response("/api/dashboard", 500,
                                       [error |-> "KeyError"])
            \/ \E t \in RequestTimes : \E docs \in EventLogs(t) :
                  /\ dashboard_search' = "returned"
                  /\ response' = Response("/api/dashboard", 200,
                        [chart_attacks_over_time |->
                           format_buckets(DateHistogram(t, docs))])
    /\ UNCHANGED <<served, es, model, ai_analysis_cache, now, ticks, pc,
                   started, search, reply, ai_result, calls, result, cacheStart>>

\* Faulty variant: the handler waits until no run of the task is in progress.
get_ai_analysis_after_refresh ==
    /\ \A c \in Cycles : ~Active(c)
    /\ served' = ai_analysis_cache
    /\ UNCHANGED <<response, dashboard_search, es, model, ai_analysis_cache,
                   now, ticks, pc, started, search, reply, ai_result, calls,
                   result, cacheStart>>
\* Lines 173-176: GET /api/ai-analysis serialises whatever dict the module
\* global refers to at that moment.
get_ai_analysis ==
    /\ served' = ai_analysis_cache
    /\ UNCHANGED <<response, dashboard_search, es, model, ai_analysis_cache,
                   now, ticks, pc, started, search, reply, ai_result, calls,
                   result, cacheStart>>

fetch_and_analyze_data(c) ==
    \/ SearchRaises(c)
    \/ SearchMalformed(c)
    \/ SearchEmpty(c)
    \/ SearchOk(c)
    \/ GenerateRaises(c)
    \/ GenerateReturns(c)
    \/ AttachTimestamp(c)
    \/ Publish(c)

Next ==
    \/ TimerFires
    \/ JobTick
    \/ \E c \in Cycles : fetch_and_analyze_data(c)
    \/ get_ai_analysis

Spec == Init /\ [][Next]_vars

\* The program with all three routes being requested.
NextHttp ==
    \/ Next
    \/ health_check
    \/ get_dashboard_data

SpecHttp == Init /\ [][NextHttp]_vars

\* ------------------------------------------------ the program without end
\* The same program with no bound on the ticks or on the clock: the ticks
\* are counted modulo MaxTicks + 1 and the clock is held still, which keeps
\* the states finite; nothing below compares two clock readings.
BeginLive(c) ==
    /\ search' = [search EXCEPT ![c] = Pending]
    /\ reply' = [reply EXCEPT ![c] = NoReply]
    /\ ai_result' = [ai_result EXCEPT ![c] = JNull]
    /\ calls' = [calls EXCEPT ![c] = 0]
    /\ IF ~es \/ ~model
       THEN /\ pc' = [pc EXCEPT ![c] = Rest(c)]
            /\ result' = [result EXCEPT ![c] = Ended("skipped", "unavailable")]
            /\ UNCHANGED started
       ELSE /\ started' = [started EXCEPT ![c] = now]
            /\ pc' = [pc EXCEPT ![c] = "querying"]
            /\ result' = [result EXCEPT ![c] = Running]
    /\ UNCHANGED <<response, dashboard_search, es, model, ai_analysis_cache,
                   now, cacheStart, served>>

AttachTimestampLive(c) ==
    /\ pc[c] = "stamping"
    /\ IF SupportsItemAssignment(ai_result[c])
       THEN /\ ai_result' = [ai_result EXCEPT
                               ![c] = SetItem(@, "last_updated", IsoFormat(now))]
            /\ pc' = [pc EXCEPT ![c] = "publishing"]
            /\ UNCHANGED result
       ELSE /\ Raise(c, "TypeError", "stamp")
            /\ UNCHANGED ai_result
    /\ UNCHANGED <<response, dashboard_search, es, model, ai_analysis_cache,
                   now, ticks, started, search, reply, calls, cacheStart,
                   served>>

TimerFiresLive ==
    /\ pc["timer"] = "armed"
    /\ BeginLive("timer")
    /\ UNCHANGED ticks

\* Faulty variant: a trigger that fires once ('date') instead of 'interval'.
JobTickOnce ==
    /\ pc["timer"] # "armed"
    /\ ticks = 0
    /\ ticks' = 1
    /\ IF pc["job"] = "waiting"
       THEN BeginLive("job")
       ELSE UNCHANGED <<response, dashboard_search, es, model,
                        ai_analysis_cache, now, pc, started, search, reply,
                        ai_result, calls, result, cacheStart, served>>
JobTickLive ==
    /\ pc["timer"] # "armed"
    /\ ticks' = (ticks + 1) % (MaxTicks + 1)
    /\ IF pc["job"] = "waiting"
       THEN BeginLive("job")
       ELSE UNCHANGED <<response, dashboard_search, es, model,
                        ai_analysis_cache, now, pc, started, search, reply,
                        ai_result, calls, result, cacheStart, served>>

RunLive(c) ==
    \/ SearchRaises(c)
    \/ SearchMalformed(c)
    \/ SearchEmpty(c)
    \/ SearchOk(c)
    \/ GenerateRaises(c)
    \/ GenerateReturns(c)
    \/ AttachTimestampLive(c)
    \/ Publish(c)

NextLive ==
    \/ TimerFiresLive
    \/ JobTickLive
    \/ \E c \in Cycles : RunLive(c)
    \/ get_ai_analysis

\* The Timer fires and the scheduler keeps ticking (lines 182-187); a thread
\* inside the task goes on to its next line, and the two network calls
\* return or raise (request_timeout=30 at line 41 for es.search).
Fairness ==
    /\ WF_vars(TimerFiresLive)
    /\ WF_vars(JobTickLive)
    /\ \A c \in Cycles : WF_vars(RunLive(c))

SpecLive == Init /\ [][NextLive]_vars /\ Fairness

\* ======================================================== properties
\* A step of thread c's run of the task.
StepOf(c) == pc'[c] # pc[c]
\* The step in which thread c's run stores into the module global.
Commits(c) == pc[c] = "publishing" /\ pc'[c] # "publishing"
\* Instant a is strictly later than b; any instant is later than None.
Later(a, b) == a.tag = "ts" /\ (b.tag = "none" \/ (b.tag = "ts" /\ a.v > b.v))
last_updated(j) == j.fields["last_updated"]

\* C1: in every reachable state the cache is a Briefing with all four
\* fields summary, threat_type, recommendations and last_updated.
C1_CacheIsAlwaysAFullBriefing ==
    /\ ai_analysis_cache.kind = "object"
    /\ BriefingKeys \subseteq DOMAIN ai_analysis_cache.fields

\* C2: the Timer's run and the scheduler's run of the task are never active
\* at the same time.
C2_AtMostOneCycleActive == ~(Active("timer") /\ Active("job"))

\* C3: every commit makes the cache's last_updated strictly later than it
\* was just before the commit.
C3_CommitAdvancesLastUpdated ==
    [][\A c \in Cycles :
         Commits(c) =>
           Later(last_updated(ai_analysis_cache'),
                 last_updated(ai_analysis_cache))]_vars

\* C4: commits happen in the order in which their cycles started: every
\* commit comes from a cycle that started later than the cycle whose commit
\* it overwrites.
C4_CommitsOrderedByStart ==
    [][\A c \in Cycles : Commits(c) => started[c] > cacheStart]_vars

\* C5: a cycle whose reply is a JSON object lacking one of the three
\* required fields does not commit.
MissesRequiredField(text) ==
    \E i \in 1..Len(text) :
       /\ text[i].t = "value"
       /\ text[i].val.kind = "object"
       /\ ~(RequiredKeys \subseteq DOMAIN text[i].val.fields)
C5_MissingFieldSkips ==
    \A c \in Cycles :
       MissesRequiredField(reply[c]) =>
         pc[c] # "publishing" /\ result[c].outcome # "committed"

\* C6: when the search call of a cycle raises, that cycle ends skipped, its
\* steps leave the cache as it was and it never calls the summarization
\* service.
C6_QueryFailureLeavesCache ==
    /\ [](\A c \in Cycles :
            search[c].status = "raised" =>
              /\ calls[c] = 0
              /\ ~Active(c)
              /\ result[c] = Ended("skipped", "query"))
    /\ [][\A c \in Cycles :
            (StepOf(c) /\ search'[c].status = "raised") =>
              ai_analysis_cache' = ai_analysis_cache]_vars

\* A cycle's search failed while the cache held a committed Briefing.
C6_Witness ==
    \E c \in Cycles :
       /\ search[c].status = "raised"
       /\ result[c] = Ended("skipped", "query")
       /\ ai_analysis_cache # InitialCache

\* C7: when the search of a cycle reports zero events, that cycle ends
\* skipped, its steps leave the cache as it was (a committed Briefing
\* stays) and it never calls the summarization service.
ReportsNoEvents(q) ==
    q.status = "returned" /\ q.body.hasTotal /\ q.body.total_events = 0
C7_NoEventsLeavesCache ==
    /\ [](\A c \in Cycles :
            ReportsNoEvents(search[c]) =>
              /\ calls[c] = 0
              /\ ~Active(c)
              /\ result[c] = Ended("skipped", "empty"))
    /\ [][\A c \in Cycles :
            (StepOf(c) /\ ReportsNoEvents(search'[c])) =>
              ai_analysis_cache' = ai_analysis_cache]_vars

\* A cycle found no events while the cache held a committed Briefing.
C7_Witness ==
    \E c \in Cycles :
       /\ ReportsNoEvents(search[c])
       /\ result[c] = Ended("skipped", "empty")
       /\ ai_analysis_cache # InitialCache
       /\ ai_analysis_cache.fields["last_updated"].tag = "ts"

\* C8: when the reply of a cycle is malformed (it carries prose, or no JSON
\* object at all) or the summarization call raises, that cycle ends skipped
\* and its steps leave the cache as it was; and every GET /api/ai-analysis
\* returns the cache as it stands, without changing it.
Malformed(text) ==
    /\ text # NoReply
    /\ \/ \E i \in 1..Len(text) : text[i].t = "prose"
       \/ \A i \in 1..Len(text) :
             ~(text[i].t = "value" /\ text[i].val.kind = "object")
CallFailed(c) ==
    pc[c] = "summarizing" /\ pc'[c] # "summarizing" /\ reply'[c] = NoReply
C8_BadReplyKeepsServedBriefing ==
    /\ [](\A c \in Cycles :
            Malformed(reply[c]) =>
              pc[c] # "publishing" /\ result[c].outcome # "committed")
    /\ [][/\ \A c \in Cycles :
               (StepOf(c) /\ (Malformed(reply'[c]) \/ CallFailed(c))) =>
                 /\ ai_analysis_cache' = ai_analysis_cache
                 /\ result'[c].outcome = "skipped" \/ pc'[c] = "stamping"
          /\ served' # served =>
               /\ served' = ai_analysis_cache
               /\ ai_analysis_cache' = ai_analysis_cache]_vars

\* After a malformed reply ended a cycle, a GET returned the Briefing an
\* earlier cycle had committed.
C8_Witness ==
    \E c \in Cycles :
       /\ Malformed(reply[c])
       /\ result[c].outcome = "skipped"
       /\ ai_analysis_cache # InitialCache
       /\ served = ai_analysis_cache

\* C9: whatever a GET /api/ai-analysis returns is the placeholder or a
\* complete Briefing: all the fields of one parsed reply together with the
\* timestamp line 110 attached to it.
IsCompleteBriefing(j) ==
    /\ j.kind = "object"
    /\ "last_updated" \in DOMAIN j.fields
    /\ j.fields["last_updated"].tag = "ts"
    /\ \E text \in Replies :
          /\ ParseReply(text).ok
          /\ SupportsItemAssignment(ParseReply(text).value)
          /\ j = SetItem(ParseReply(text).value, "last_updated",
                         j.fields["last_updated"])
C9_ReadersSeeWholeBriefings ==
    served = JNull \/ served = InitialCache \/ IsCompleteBriefing(served)

\* A GET returned a committed Briefing while another cycle was between
\* line 110 and line 111.
C9_Witness ==
    /\ IsCompleteBriefing(served)
    /\ \E c \in Cycles :
          pc[c] = "publishing" /\ ai_result[c] # served

\* C10: no error leaves the task: a cycle in which an error is raised ends
\* skipped, its steps leave the cache as it was, and the scheduler's job is
\* left waiting, so that the next tick starts a cycle.
ErrorSteps == {"query", "compose", "summarize", "parse", "stamp"}
C10_ErrorsStayInsideTheCycle ==
    /\ [](/\ \A c \in Cycles :
               /\ result[c].outcome # "escaped"
               /\ result[c].at \in ErrorSteps =>
                    result[c].outcome = "skipped" /\ pc[c] = Rest(c)
          /\ (result["job"].at \in ErrorSteps /\ ticks < MaxTicks
                /\ now < MaxTime) => ENABLED JobTick)
    /\ [][\A c \in Cycles :
            (StepOf(c) /\ result'[c].at \in ErrorSteps) =>
              ai_analysis_cache' = ai_analysis_cache]_vars

\* The job's cycle ended on the TypeError of line 110 while the cache held
\* a committed Briefing, and a further tick can start the job again.
C10_Witness ==
    /\ result["job"] = Ended("skipped", "stamp")
    /\ ai_analysis_cache # InitialCache
    /\ pc["job"] = "waiting"
    /\ ENABLED JobTick

\* C11: when es or model is None after module initialization, they stay
\* None, every run of the task returns at line 53 (no search, no
\* summarization call, no write) and every GET /api/ai-analysis returns the
\* placeholder.
Degraded == ~es \/ ~model
C11_DegradedModeServesPlaceholder ==
    /\ [](Degraded =>
            /\ ai_analysis_cache = InitialCache
            /\ served \in {JNull, InitialCache}
            /\ \A c \in Cycles :
                  /\ ~Active(c)
                  /\ search[c] = Pending
                  /\ calls[c] = 0
                  /\ result[c] \in {Ended("none", "none"),
                                    Ended("skipped", "unavailable")})
    /\ [][es' = es /\ model' = model]_vars

\* Without a store client, the Timer's run and the last explored tick's run
\* have both returned at line 53 and a GET has returned the placeholder.
C11_Witness ==
    /\ Degraded
    /\ ticks = MaxTicks
    /\ \A c \in Cycles : result[c] = Ended("skipped", "unavailable")
    /\ served = InitialCache

\* C15: a reply that is a valid three-field object wrapped in code fences
\* (with or without the json tag, with whitespace around) parses to what
\* the bare object parses to, and its cycle commits a Briefing carrying
\* exactly the three field values of that object.
ValuesIn(text) ==
    {text[i].val : i \in {j \in 1..Len(text) : text[j].t = "value"}}
IsThreeFieldObject(o) == o.kind = "object" /\ DOMAIN o.fields = RequiredKeys
IsWrappingOf(text, o) ==
    LET s == Strip(text)
    IN  /\ Len(s) >= 3
        /\ s[1] = FENCE
        /\ s[Len(s)] = FENCE
        /\ LET from == IF s[2] = JSONWORD THEN 3 ELSE 2
           IN  Strip(SubSeq(s, from, Len(s) - 1)) = <<ValTok(o)>>
C15_FencedReplyCommitsItsObject ==
    \A c \in Cycles : \A o \in ValuesIn(reply[c]) :
       (IsThreeFieldObject(o) /\ IsWrappingOf(reply[c], o)) =>
         /\ ParseReply(reply[c]) = ParseReply(<<ValTok(o)>>)
         /\ result[c].outcome # "skipped"
         /\ (pc[c] = "publishing" \/ result[c].outcome = "committed") =>
              \A k \in RequiredKeys : ai_result[c].fields[k] = o.fields[k]

\* C13: GET /api/ai-analysis can be served in every reachable state, also
\* while a run of the task is blocked in es.search or generate_content, and
\* what it returns is the cache as it stands at that moment.
Blocked(c) == pc[c] \in {"querying", "summarizing"}
C13_ReadNeverWaitsForRefresh ==
    /\ [](ENABLED get_ai_analysis)
    /\ [][served' # served =>
            served' = ai_analysis_cache /\ pc' = pc]_vars

\* The Timer's run is still blocked; the job's run, started after it, has
\* committed; a GET has returned that commit.
C13_Witness ==
    /\ Blocked("timer")
    /\ cacheStart > started["timer"]
    /\ served = ai_analysis_cache

\* C18: the steps of one run occur in the order query, compose, summarize,
\* parse, stamp, commit, each at most once: generate_content is called at
\* most once and only after a search that returned events, and the cache is
\* written only by a run that called it and parsed its reply.
Rank(p) ==
    CASE p = "querying" -> 1
      [] p = "summarizing" -> 2
      [] p = "stamping" -> 3
      [] p = "publishing" -> 4
      [] OTHER -> 5
FoundEvents(q) ==
    /\ q.status = "returned"
    /\ q.body.hasTotal /\ q.body.total_events > 0 /\ q.body.bucketsOk
C18_StepsInOrderOnce ==
    /\ [](\A c \in Cycles :
            /\ calls[c] <= 1
            /\ calls[c] = 1 => FoundEvents(search[c])
            /\ pc[c] = "querying" =>
                 search[c] = Pending /\ calls[c] = 0 /\ reply[c] = NoReply
            /\ pc[c] = "summarizing" => calls[c] = 1 /\ reply[c] = NoReply
            /\ (pc[c] \in {"stamping", "publishing"}
                  \/ result[c].outcome = "committed") =>
                 calls[c] = 1 /\ reply[c] # NoReply /\ ParseReply(reply[c]).ok)
    /\ [][\A c \in Cycles :
            /\ (StepOf(c) /\ Active(c)) => Rank(pc'[c]) > Rank(pc[c])
            /\ ai_analysis_cache' # ai_analysis_cache =>
                 \E d \in Cycles : Commits(d)]_vars

\* A run has gone through all its steps and committed.
C18_Witness ==
    \E c \in Cycles :
       /\ result[c].outcome = "committed"
       /\ calls[c] = 1
       /\ ai_analysis_cache = ai_result[c]

\* C20: the cache is always a dict with a last_updated key; a reply that
\* parses to anything but a dict never reaches the commit and its run
\* leaves the cache alone; the last_updated of a commit is the clock reading
\* its run took at line 110, whatever last_updated the reply carried.
ParsesToNonDict(text) ==
    text # NoReply /\ ParseReply(text).ok
       /\ ParseReply(text).value.kind # "object"
C20_OnlyDictsCommitWithOwnTimestamp ==
    /\ [](/\ ai_analysis_cache.kind = "object"
          /\ "last_updated" \in DOMAIN ai_analysis_cache.fields
          /\ \A c \in Cycles :
                /\ ParsesToNonDict(reply[c]) =>
                     pc[c] # "publishing" /\ result[c].outcome # "committed"
                /\ pc[c] = "publishing" =>
                     /\ last_updated(ai_result[c]).tag = "ts"
                     /\ last_updated(ai_result[c]).v > started[c]
                     /\ last_updated(ai_result[c]).v < now)
    /\ [][\A c \in Cycles :
            /\ Commits(c) => ai_analysis_cache' = ai_result[c]
            /\ (StepOf(c) /\ ParsesToNonDict(reply'[c])) =>
                 ai_analysis_cache' = ai_analysis_cache]_vars

\* One run committed a reply that carried its own last_updated, another
\* ended on a reply that was not a dict.
C20_Witness ==
    \E c, d \in Cycles :
       /\ reply[c] = <<ValTok(DatedBriefing(1))>>
       /\ result[c].outcome = "committed"
       /\ ai_analysis_cache = ai_result[c]
       /\ last_updated(ai_analysis_cache).tag = "ts"
       /\ ParsesToNonDict(reply[d])
       /\ result[d] = Ended("skipped", "stamp")

\* C12: the cache changes only in the commit of a run that found events,
\* called generate_content and parsed its reply, and the value written is
\* made of that run's reply and clock reading alone, not of the value the
\* cache held; skipped runs, ticks and the three GET handlers leave it as
\* it is.
C12_OnlyTheCommitWritesTheCache ==
    [][ai_analysis_cache' # ai_analysis_cache =>
         \E c \in Cycles :
            /\ Commits(c)
            /\ result'[c].outcome = "committed"
            /\ FoundEvents(search[c])
            /\ calls[c] = 1
            /\ ParseReply(reply[c]).ok
            /\ \E t \in 1..MaxTime :
                  ai_analysis_cache' =
                     SetItem(ParseReply(reply[c]).value, "last_updated",
                             Stamp(t))
            /\ UNCHANGED <<served, response, ticks>>]_vars

\* One run committed; after it a run was skipped and all three routes were
\* served, and the cache still is what the first run wrote.
C12_Witness ==
    \E c, d \in Cycles :
       /\ result[c].outcome = "committed"
       /\ ai_analysis_cache = ai_result[c]
       /\ result[d].outcome = "skipped"
       /\ started[d] > last_updated(ai_analysis_cache).v
       /\ DOMAIN ai_analysis_cache.fields # BriefingKeys
       /\ response.route = "/api/dashboard"
       /\ served = ai_analysis_cache

\* C16: a request to /api/dashboard made without a client, or whose
\* es.search raises, is answered with status 500 and a body holding an
\* error and no dashboard data; only a search that returned is answered
\* with data; no request to the route changes the cache.
StoreUnavailable == ~es \/ dashboard_search = "raised"
C16_DashboardReportsUnavailableStore ==
    /\ [](response.route = "/api/dashboard" =>
            /\ StoreUnavailable =>
                 response.status = 500 /\ DOMAIN response.body = {"error"}
            /\ response.status = 200 =>
                 /\ dashboard_search = "returned"
                 /\ "error" \notin DOMAIN response.body)
    /\ [][dashboard_search' # dashboard_search \/ response' # response =>
            ai_analysis_cache' = ai_analysis_cache]_vars

\* A search that failed inside a request, with a committed briefing in the
\* cache.
C16_Witness ==
    /\ es
    /\ dashboard_search = "raised"
    /\ response.status = 500
    /\ ai_analysis_cache # InitialCache

\* C17: the time series of a /api/dashboard response has exactly 24
\* entries, whatever the time of the request.
C17_SeriesHas24Entries ==
    (response.route = "/api/dashboard" /\ response.status = 200) =>
       Len(response.body.chart_attacks_over_time) = WindowHours

\* C14: the task is started once by the Timer, and the scheduler's job is
\* started again and again without end, whether the runs before committed
\* or were skipped.
JobStarts == ticks' # ticks /\ pc["job"] = "waiting"
C14_CyclesStartForever ==
    /\ <>(pc["timer"] # "armed")
    /\ []<><<JobStarts>>_vars
    /\ [][pc["timer"] # "armed" => pc'["timer"] # "armed"]_vars

\* The Timer's run was skipped, a run of the job has committed, and after
\* more than MaxTicks ticks the job is running again.
C14_Witness ==
    /\ pc["job"] = "querying"
    /\ result["timer"].outcome = "skipped"
    /\ ai_analysis_cache # InitialCache
    /\ ticks = 0

\* C19: a run that has started ends, and ends committed or skipped; until
\* then it only moves on to a later step of the same run.
Finished(c) ==
    pc[c] = Rest(c) /\ result[c].outcome \in {"committed", "skipped"}
C19_EveryCycleEnds ==
    /\ \A c \in Cycles : Active(c) ~> Finished(c)
    /\ [][\A c \in Cycles :
            (Active(c) /\ StepOf(c)) =>
               \/ Active(c)' /\ result'[c] = Running
               \/ Finished(c)']_vars

\* Both threads have been through a run: one committed, one was skipped
\* after its search.
C19_Witness ==
    \E c, d \in Cycles :
       /\ Finished(c) /\ result[c].outcome = "committed"
       /\ Finished(d) /\ result[d] = Ended("skipped", "query")

====
